---- MODULE Spec2Model ----
(***************************************************************************)
(* The event / ticket-purchase backend of src/main.py as a state machine.  *)
(*                                                                         *)
(* State: the two MongoDB collections the routes touch (db["event"] and    *)
(* db["ticketpurchase"]), the store's ObjectId generator, the position of  *)
(* the purchase handler between its event lookup (main.py:127) and its     *)
(* insert (main.py:139), and the last request with its response.           *)
(*                                                                         *)
(* Every route but purchase_ticket issues at most one storage operation    *)
(* and is one atomic action; purchase_ticket issues two (find_one, then    *)
(* insert) and is two actions, so that every other route can run between   *)
(* them.  FastAPI validates the declared body model before it calls the    *)
(* handler, so each handler starts with the validation of its body.        *)
(*                                                                         *)
(* A handler is an operator from the request to its outcome in the current *)
(* state (the response and the collections after it); the action of a      *)
(* route applies the outcome of one request.                               *)
(*                                                                         *)
(* An Event has three kinds of fields: required strings (title, date, dj), *)
(* the price, and optional strings (description, image).  Optional values  *)
(* are <<>> (None) or <<v>>.  Prices are whole euros.                      *)
(***************************************************************************)
EXTENDS Integers, Sequences, FiniteSets, TLC

\* ---------------------------------------------------------------- bounds
MaxEvents == 2
MaxPurchases == 1
MaxPrice == 1
MaxQuantity == 2

\* ------------------------------------------------------------ option type
None == <<>>
Some(v) == <<v>>

\* ------------------------------------------------------- ObjectId strings
\* An identifier string is a sequence of characters; a character is a hex
\* digit 0..15 or the non-hex character NonHex.  ObjectId(s) accepts exactly
\* the strings of OidLen hex digits (24 in bson, scaled to OidLen here).
OidLen == 2
HexBase == 16
NonHex == HexBase

RECURSIVE HexValue(_)
HexValue(s) == IF s = <<>> THEN 0
               ELSE HexValue(SubSeq(s, 1, Len(s) - 1)) * HexBase + s[Len(s)]

RECURSIVE HexDigits(_, _)
HexDigits(n, len) == IF len = 0 THEN <<>>
                     ELSE Append(HexDigits(n \div HexBase, len - 1), n % HexBase)

\* str(ObjectId): the identifier a response carries
OidToStr(oid) == HexDigits(oid, OidLen)

IsObjectIdStr(s) == Len(s) = OidLen /\ \A i \in 1..Len(s) : s[i] < HexBase

\* slip: the parse accepts every string
to_object_id_Lenient(id_str) == <<TRUE, HexValue(id_str)>>

\* to_object_id: <<TRUE, oid>> or <<FALSE, 400>>
to_object_id(id_str) ==
    IF IsObjectIdStr(id_str) THEN <<TRUE, HexValue(id_str)>> ELSE <<FALSE, 400>>

MaxOid == MaxEvents + MaxPurchases
Malformed == {<<0, NonHex>>}
IdStrings == {OidToStr(n) : n \in 1..MaxOid} \cup Malformed

\* ------------------------------------------------------------- the schemas
Fields == {"title", "date", "dj", "price", "description", "image"}
Required == {"title", "date", "dj", "price"}

ADMIN_TOKEN == "s3cret"
Tokens == {ADMIN_TOKEN, ""}

Prices == (0 - 1)..MaxPrice

\* The bodies a client may send to a route that takes Event fields: the
\* required strings all absent or all given, any price or none, the optional
\* strings all absent or all given.
StringsAbsent == [title |-> None, date |-> None, dj |-> None]
StringsGiven == [title |-> Some("party"), date |-> Some("2025-01-01"), dj |-> Some("dj")]
OptionalAbsent == [description |-> None, image |-> None]
OptionalGiven == [description |-> Some("text"), image |-> Some("url")]

EventPayloads ==
    {[f \in Fields |-> IF f \in DOMAIN s THEN s[f]
                       ELSE IF f \in DOMAIN o THEN o[f] ELSE pr] :
        s \in {StringsAbsent, StringsGiven},
        pr \in {None} \cup {Some(p) : p \in Prices},
        o \in {OptionalAbsent, OptionalGiven}}

\* schemas.Event / EventCreate: required fields present, price >= 0
ValidEvent(p) == /\ \A f \in Required : p[f] # None
                 /\ p.price[1] >= 0

\* main.AdminEvent: required fields present, price any number
ValidAdminEvent(p) == \A f \in Required : p[f] # None

\* main.EventUpdate: every field optional, price >= 0 when given
ValidEventUpdate(p) == p.price # None => p.price[1] >= 0

\* main.PurchaseRequest: quantity >= 1, email an address (EmailStr)
IsEmail(e) == \E i \in 2..(Len(e) - 1) : e[i] = "@"

ValidPurchaseRequest(r) == r.quantity >= 1 /\ IsEmail(r.email)

Emails == {<<"a", "@", "b">>, <<"a", "b">>}

PurchaseRequests ==
    [buyer_name : {"ann"}, email : Emails, phone : {None},
     event_id : IdStrings, quantity : 0..MaxQuantity]

\* ---------------------------------------------------------------- state
VARIABLES
    event,          \* db["event"]: ObjectId -> document
    ticketpurchase, \* db["ticketpurchase"]: ObjectId -> document
    nextOid,        \* the next ObjectId the store assigns
    pending,        \* purchase_ticket between lines 127 and 139: None or Some
    removed,        \* history: the identifiers delete has removed so far
    last            \* the route that ran last and what it answered

vars == <<event, ticketpurchase, nextOid, pending, removed, last>>

InProgress == 0

Init ==
    /\ event = <<>>
    /\ ticketpurchase = <<>>
    /\ nextOid = 1
    /\ pending = None
    /\ removed = {}
    /\ last = [op |-> "start", status |-> InProgress, body |-> None]

\* ------------------------------------------------------------- outcomes
Detail(msg) == [detail |-> msg]

\* an outcome that writes nothing
Answer(status, body) ==
    [status |-> status, body |-> body,
     event |-> event, ticketpurchase |-> ticketpurchase, nextOid |-> nextOid]

\* an outcome that leaves the event collection as ev
AnswerEvent(status, body, ev, oid) ==
    [status |-> status, body |-> body,
     event |-> ev, ticketpurchase |-> ticketpurchase, nextOid |-> oid]

\* ------------------------------------------------------ persistence gateway
\* database.create_document: insert the record's fields under a new
\* identifier; the collection after the insert and the identifier as a string
create_document(coll, data) ==
    [docs |-> coll @@ (nextOid :> data), id |-> OidToStr(nextOid)]

\* serialize: the document with its identifier as the string field "id"
serialize(oid, doc) == [id |-> OidToStr(oid), fields |-> doc]

\* database.get_documents
get_documents(coll) == {serialize(oid, coll[oid]) : oid \in DOMAIN coll}

\* slip: the update replaces the document instead of setting fields
update_one_Replace(coll, oid, updates) ==
    IF oid \notin DOMAIN coll
    THEN [docs |-> coll, matched_count |-> 0, modified_count |-> 0]
    ELSE [docs |-> [coll EXCEPT ![oid] = updates],
          matched_count |-> 1,
          modified_count |-> IF updates = coll[oid] THEN 0 ELSE 1]

\* collection.update_one({"_id": oid}, {"$set": updates})
update_one(coll, oid, updates) ==
    IF oid \notin DOMAIN coll
    THEN [docs |-> coll, matched_count |-> 0, modified_count |-> 0]
    ELSE LET doc == [f \in DOMAIN coll[oid] \cup DOMAIN updates |->
                        IF f \in DOMAIN updates THEN updates[f] ELSE coll[oid][f]]
         IN [docs |-> [coll EXCEPT ![oid] = doc],
             matched_count |-> 1,
             modified_count |-> IF doc = coll[oid] THEN 0 ELSE 1]

\* collection.delete_one({"_id": oid})
delete_one(coll, oid) ==
    IF oid \notin DOMAIN coll
    THEN [docs |-> coll, deleted_count |-> 0]
    ELSE [docs |-> [o \in DOMAIN coll \ {oid} |-> coll[o]], deleted_count |-> 1]

\* ------------------------------------------------------------ event routes
\* GET /api/events
list_events == Answer(200, get_documents(event))

\* POST /api/events
create_event(p) ==
    IF ~ValidEvent(p)
    THEN Answer(422, Detail("validation"))
    ELSE LET r == create_document(event, p)
         IN AnswerEvent(201, [id |-> r.id], r.docs, nextOid + 1)

\* GET /api/events/{event_id}
get_event(id_str) ==
    LET oid == to_object_id(id_str) IN
    IF ~oid[1] THEN Answer(oid[2], Detail("Invalid ID format"))
    ELSE IF oid[2] \notin DOMAIN event THEN Answer(404, Detail("Event not found"))
    ELSE Answer(200, serialize(oid[2], event[oid[2]]))

\* updates = {k: v for k, v in payload.model_dump().items() if v is not None}
Updates(p) == [f \in {k \in DOMAIN p : p[k] # None} |-> p[f]]

\* slip: no 404 when nothing matched
update_event_NoMatchCheck(id_str, p) ==
    LET updates == Updates(p)
        oid == to_object_id(id_str)
        res == update_one(event, oid[2], updates)
    IN
    IF ~ValidEventUpdate(p) THEN Answer(422, Detail("validation"))
    ELSE IF DOMAIN updates = {} THEN Answer(200, [updated |-> FALSE])
    ELSE IF ~oid[1] THEN Answer(oid[2], Detail("Invalid ID format"))
    ELSE AnswerEvent(200, [updated |-> res.modified_count > 0], res.docs, nextOid)

\* slip: updated reports matched_count instead of modified_count
update_event_Matched(id_str, p) ==
    LET updates == Updates(p)
        oid == to_object_id(id_str)
        res == update_one(event, oid[2], updates)
    IN
    IF ~ValidEventUpdate(p) THEN Answer(422, Detail("validation"))
    ELSE IF DOMAIN updates = {} THEN Answer(200, [updated |-> FALSE])
    ELSE IF ~oid[1] THEN Answer(oid[2], Detail("Invalid ID format"))
    ELSE IF res.matched_count = 0 THEN Answer(404, Detail("Event not found"))
    ELSE AnswerEvent(200, [updated |-> res.matched_count > 0], res.docs, nextOid)

\* PUT /api/events/{event_id}
update_event(id_str, p) ==
    LET updates == Updates(p)
        oid == to_object_id(id_str)
        res == update_one(event, oid[2], updates)
    IN
    IF ~ValidEventUpdate(p) THEN Answer(422, Detail("validation"))
    ELSE IF DOMAIN updates = {} THEN Answer(200, [updated |-> FALSE])
    ELSE IF ~oid[1] THEN Answer(oid[2], Detail("Invalid ID format"))
    ELSE IF res.matched_count = 0 THEN Answer(404, Detail("Event not found"))
    ELSE AnswerEvent(200, [updated |-> res.modified_count > 0], res.docs, nextOid)

\* slip: no 404 when nothing was deleted
delete_event_Always200(id_str) ==
    LET oid == to_object_id(id_str)
        res == delete_one(event, oid[2])
    IN
    IF ~oid[1] THEN Answer(oid[2], Detail("Invalid ID format"))
    ELSE AnswerEvent(200, [deleted |-> TRUE], res.docs, nextOid)

\* slip: the delete also removes the purchases that reference the event
delete_event_Cascade(id_str) ==
    LET oid == to_object_id(id_str)
        res == delete_one(event, oid[2])
        kept == {o \in DOMAIN ticketpurchase : ticketpurchase[o].event_id # id_str}
    IN
    IF ~oid[1] THEN Answer(oid[2], Detail("Invalid ID format"))
    ELSE IF res.deleted_count = 0 THEN Answer(404, Detail("Event not found"))
    ELSE [status |-> 200, body |-> [deleted |-> TRUE], event |-> res.docs,
          ticketpurchase |-> [o \in kept |-> ticketpurchase[o]], nextOid |-> nextOid]

\* DELETE /api/events/{event_id}
delete_event(id_str) ==
    LET oid == to_object_id(id_str)
        res == delete_one(event, oid[2])
    IN
    IF ~oid[1] THEN Answer(oid[2], Detail("Invalid ID format"))
    ELSE IF res.deleted_count = 0 THEN Answer(404, Detail("Event not found"))
    ELSE AnswerEvent(200, [deleted |-> TRUE], res.docs, nextOid)

\* ---------------------------------------------------------- ticket purchase
\* slip: no 404 when the event is absent, the price then defaults to 0
purchase_ticket_NoFoundCheck(req) ==
    LET oid == to_object_id(req.event_id)
        has == oid[2] \in DOMAIN event
        total == (IF has THEN event[oid[2]].price[1] ELSE 0) * req.quantity
        purchase_doc == [buyer_name |-> req.buyer_name, email |-> req.email,
                         phone |-> req.phone, event_id |-> req.event_id,
                         quantity |-> req.quantity, total_price |-> total]
    IN
    IF ~ValidPurchaseRequest(req)
    THEN [found |-> FALSE, out |-> Answer(422, Detail("validation"))]
    ELSE IF ~oid[1]
    THEN [found |-> FALSE, out |-> Answer(oid[2], Detail("Invalid ID format"))]
    ELSE [found |-> TRUE, doc |-> purchase_doc,
          event_title |-> IF has THEN event[oid[2]].title ELSE None]

\* POST /api/tickets/purchase, lines 127-138: look the event up, compute the
\* total and build the document; found tells whether the handler goes on
purchase_ticket(req) ==
    LET oid == to_object_id(req.event_id)
        ev == event[oid[2]]
        total == (IF "price" \in DOMAIN ev THEN ev.price[1] ELSE 0) * req.quantity
        purchase_doc == [buyer_name |-> req.buyer_name, email |-> req.email,
                         phone |-> req.phone, event_id |-> req.event_id,
                         quantity |-> req.quantity, total_price |-> total]
    IN
    IF ~ValidPurchaseRequest(req)
    THEN [found |-> FALSE, out |-> Answer(422, Detail("validation"))]
    ELSE IF ~oid[1]
    THEN [found |-> FALSE, out |-> Answer(oid[2], Detail("Invalid ID format"))]
    ELSE IF oid[2] \notin DOMAIN event
    THEN [found |-> FALSE, out |-> Answer(404, Detail("Event not found"))]
    ELSE [found |-> TRUE, doc |-> purchase_doc,
          event_title |-> IF "title" \in DOMAIN ev THEN ev.title ELSE None]

\* lines 139-140: insert the document built before and answer
purchase_insert(p) ==
    LET r == create_document(ticketpurchase, p.doc)
    IN [status |-> 200,
        body |-> [id |-> r.id, total_price |-> p.doc.total_price,
                  event_title |-> p.event_title],
        event |-> event, ticketpurchase |-> r.docs, nextOid |-> nextOid + 1]

\* ------------------------------------------------------------ admin routes
\* POST /api/admin/events?token=
admin_add_event(p, token) ==
    IF ~ValidAdminEvent(p) THEN Answer(422, Detail("validation"))
    ELSE IF token # ADMIN_TOKEN THEN Answer(401, Detail("Unauthorized"))
    ELSE LET r == create_document(event, p)
         IN AnswerEvent(200, [id |-> r.id], r.docs, nextOid + 1)

\* slip: the admin update forgets the token comparison
admin_edit_event_NoGate(id_str, p, token) ==
    IF ~ValidEventUpdate(p) THEN Answer(422, Detail("validation"))
    ELSE update_event(id_str, p)

\* PUT /api/admin/events/{event_id}?token=
admin_edit_event(id_str, p, token) ==
    IF ~ValidEventUpdate(p) THEN Answer(422, Detail("validation"))
    ELSE IF token # ADMIN_TOKEN THEN Answer(401, Detail("Unauthorized"))
    ELSE update_event(id_str, p)

\* DELETE /api/admin/events/{event_id}?token=
admin_delete_event(id_str, token) ==
    IF token # ADMIN_TOKEN THEN Answer(401, Detail("Unauthorized"))
    ELSE delete_event(id_str)

\* ------------------------------------------------------------- the actions
EventsCreated == (nextOid - 1) - Cardinality(DOMAIN ticketpurchase)

\* the store after a request and the route's answer
Respond(op, r) ==
    /\ event' = r.event
    /\ ticketpurchase' = r.ticketpurchase
    /\ nextOid' = r.nextOid
    /\ removed' = removed \cup (DOMAIN event \ DOMAIN r.event)
    /\ last' = [op |-> op, status |-> r.status, body |-> r.body]
    /\ (r.nextOid # nextOid /\ r.event # event) => EventsCreated < MaxEvents
    /\ UNCHANGED pending

ListEvents == Respond("list_events", list_events)

CreateEvent == \E p \in EventPayloads : Respond("create_event", create_event(p))

GetEvent == \E s \in IdStrings : Respond("get_event", get_event(s))

UpdateEvent ==
    \E s \in IdStrings, p \in EventPayloads : Respond("update_event", update_event(s, p))

DeleteEvent == \E s \in IdStrings : Respond("delete_event", delete_event(s))

AdminAddEvent ==
    \E p \in EventPayloads, t \in Tokens :
        Respond("admin_add_event", admin_add_event(p, t))

AdminEditEvent ==
    \E s \in IdStrings, p \in EventPayloads, t \in Tokens :
        Respond("admin_edit_event", admin_edit_event(s, p, t))

AdminDeleteEvent ==
    \E s \in IdStrings, t \in Tokens :
        Respond("admin_delete_event", admin_delete_event(s, t))

\* purchase_ticket up to its event lookup: an error answer, or on to the insert
PurchaseLookup ==
    \E req \in PurchaseRequests :
        LET r == purchase_ticket(req) IN
        /\ pending = None
        /\ IF r.found
           THEN /\ Cardinality(DOMAIN ticketpurchase) < MaxPurchases
                /\ pending' = Some([doc |-> r.doc, event_title |-> r.event_title])
                /\ last' = [op |-> "purchase_ticket", status |-> InProgress, body |-> None]
                /\ UNCHANGED <<event, ticketpurchase, nextOid, removed>>
           ELSE Respond("purchase_ticket", r.out)

\* purchase_ticket from its insert on
PurchaseInsert ==
    /\ pending # None
    /\ LET r == purchase_insert(pending[1]) IN
       /\ event' = r.event
       /\ ticketpurchase' = r.ticketpurchase
       /\ nextOid' = r.nextOid
       /\ last' = [op |-> "purchase_ticket", status |-> r.status, body |-> r.body]
    /\ pending' = None
    /\ UNCHANGED removed

Next ==
    \/ ListEvents
    \/ CreateEvent
    \/ GetEvent
    \/ UpdateEvent
    \/ DeleteEvent
    \/ PurchaseLookup
    \/ PurchaseInsert
    \/ AdminAddEvent
    \/ AdminEditEvent
    \/ AdminDeleteEvent

Spec == Init /\ [][Next]_vars

\* ------------------------------------------------------------ vocabulary
WellFormed(id_str) == to_object_id(id_str)[1]
OidOf(id_str) == to_object_id(id_str)[2]
Resolves(id_str) == WellFormed(id_str) /\ OidOf(id_str) \in DOMAIN event
IsEmpty(p) == \A f \in Fields : p[f] = None

\* the outcome r writes nothing
NoWrite(r) ==
    /\ r.event = event
    /\ r.ticketpurchase = ticketpurchase
    /\ r.nextOid = nextOid

AdminOps == {"admin_add_event", "admin_edit_event", "admin_delete_event"}
BadTokens == Tokens \ {ADMIN_TOKEN}

\* the document the store assigned last
Newest(coll) == coll[nextOid - 1]

TypeOK ==
    /\ nextOid \in 1..(MaxOid + 1)
    /\ DOMAIN event \cup DOMAIN ticketpurchase \cup removed \subseteq 1..(nextOid - 1)
    /\ \A oid \in DOMAIN event : DOMAIN event[oid] = Fields

\* ------------------------------------------------------------------- C1
\* C1 as stated: on each of the three admin routes a request whose token is
\* not ADMIN_TOKEN is answered 401 and writes nothing, whatever the
\* identifier and the payload are.
C1_AsStated ==
    \A t \in BadTokens, s \in IdStrings, p \in EventPayloads :
        /\ admin_add_event(p, t).status = 401 /\ NoWrite(admin_add_event(p, t))
        /\ admin_edit_event(s, p, t).status = 401 /\ NoWrite(admin_edit_event(s, p, t))
        /\ admin_delete_event(s, t).status = 401 /\ NoWrite(admin_delete_event(s, t))

\* C1 amended: on each of the three admin routes a request whose token is
\* not ADMIN_TOKEN writes nothing, whatever the identifier and the payload
\* are; it is answered 401 when its payload passes the route's body schema,
\* and with the validation error 422 otherwise (the body is validated before
\* the handler compares the token).
C1_BadTokenWritesNothing ==
    \A t \in BadTokens, s \in IdStrings, p \in EventPayloads :
        /\ NoWrite(admin_add_event(p, t))
        /\ admin_add_event(p, t).status = IF ValidAdminEvent(p) THEN 401 ELSE 422
        /\ NoWrite(admin_edit_event(s, p, t))
        /\ admin_edit_event(s, p, t).status = IF ValidEventUpdate(p) THEN 401 ELSE 422
        /\ NoWrite(admin_delete_event(s, t))
        /\ admin_delete_event(s, t).status = 401

\* an admin update was just refused with 401 while events and purchases exist
C1_Witness ==
    /\ last.op = "admin_edit_event"
    /\ last.status = 401
    /\ event # <<>>
    /\ ticketpurchase # <<>>

\* ------------------------------------------------------------------- C2
\* C2: a create with a negative price is rejected on every create route and
\* stores nothing, a create with price 0 is accepted, and so every Event in
\* the store has price >= 0 after any sequence of requests.
C2_PriceNonNegative ==
    /\ \A oid \in DOMAIN event : event[oid].price[1] >= 0
    /\ (last.op \in {"create_event", "admin_add_event"} /\ last.status \in {200, 201})
          => Newest(event).price[1] >= 0

\* ------------------------------------------------------------------- C3
\* C3: the record a purchase has just written has total_price equal to its
\* quantity times the price the referenced Event holds in the store at that
\* moment, and total_price is non-negative, also when an update or a delete
\* of the Event ran between the purchase's lookup and its insert.
C3_TotalIsPriceAtWrite ==
    (last.op = "purchase_ticket" /\ last.status = 200) =>
        LET d == Newest(ticketpurchase) IN
        /\ Resolves(d.event_id)
        /\ d.total_price = d.quantity * event[OidOf(d.event_id)].price[1]
        /\ d.total_price >= 0

\* ------------------------------------------------------------------- C4
\* C4: a valid purchase request whose event_id is well formed and matches no
\* Event is answered 404; no purchase request whose event_id does not resolve
\* goes on to the insert or writes anything; and every TicketPurchase record
\* (written or about to be) names an identifier that was assigned to an Event
\* before the record was written.
C4_PurchaseNeedsEvent ==
    /\ \A req \in PurchaseRequests :
          ~Resolves(req.event_id) =>
             /\ ~purchase_ticket(req).found
             /\ NoWrite(purchase_ticket(req).out)
             /\ (ValidPurchaseRequest(req) /\ WellFormed(req.event_id))
                   => purchase_ticket(req).out.status = 404
    /\ \A oid \in DOMAIN ticketpurchase :
          /\ WellFormed(ticketpurchase[oid].event_id)
          /\ OidOf(ticketpurchase[oid].event_id) \in (DOMAIN event \cup removed)
          /\ OidOf(ticketpurchase[oid].event_id) < oid
    /\ pending # None =>
          OidOf(pending[1].doc.event_id) \in (DOMAIN event \cup removed)

\* a purchase was just answered 404 while another Event is in the store
C4_Witness ==
    /\ last.op = "purchase_ticket"
    /\ last.status = 404
    /\ event # <<>>
    /\ ticketpurchase = <<>>

\* ------------------------------------------------------------------- C5
\* C5 as stated: an update (public, or admin with the valid token) on a well
\* formed identifier that matches no Event is answered 404 for every payload.
C5_AsStated ==
    \A s \in IdStrings, p \in EventPayloads :
        (WellFormed(s) /\ ~Resolves(s)) =>
            /\ update_event(s, p).status = 404
            /\ admin_edit_event(s, p, ADMIN_TOKEN).status = 404

\* C5 amended: an update (public, or admin with the valid token) on a well
\* formed identifier that matches no Event is answered 404 for every payload
\* that passes the schema and has at least one non-null field; the payload
\* with no non-null field is answered 200 {updated: false} without a lookup,
\* a payload that fails the schema 422; nothing is written in any case.
C5_UpdateMissing ==
    \A s \in IdStrings, p \in EventPayloads :
        (WellFormed(s) /\ ~Resolves(s)) =>
            LET r == update_event(s, p)
                a == admin_edit_event(s, p, ADMIN_TOKEN)
            IN /\ NoWrite(r) /\ a = r
               /\ r.status = IF ~ValidEventUpdate(p) THEN 422
                             ELSE IF IsEmpty(p) THEN 200 ELSE 404
               /\ IsEmpty(p) => r.body = [updated |-> FALSE]

\* an update was just answered 404 after the Event it named was removed
C5_Witness ==
    /\ last.op = "update_event"
    /\ last.status = 404
    /\ removed # {}

\* ------------------------------------------------------------------- C6
\* C6: an update of an existing Event (public, or admin with the valid
\* token, with a payload that passes the schema) sets exactly the fields that
\* are non-null in the payload to the payload's values and leaves every other
\* field of that Event, every other Event and every TicketPurchase as they
\* were; with the empty payload it answers {updated: false} and writes
\* nothing.
C6_UpdateFrame ==
    \A s \in IdStrings, p \in EventPayloads :
        (Resolves(s) /\ ValidEventUpdate(p)) =>
            LET r == update_event(s, p)
                oid == OidOf(s)
            IN /\ r.status = 200
               /\ admin_edit_event(s, p, ADMIN_TOKEN) = r
               /\ r.ticketpurchase = ticketpurchase
               /\ r.nextOid = nextOid
               /\ DOMAIN r.event = DOMAIN event
               /\ \A o \in DOMAIN event \ {oid} : r.event[o] = event[o]
               /\ DOMAIN r.event[oid] = Fields
               /\ \A f \in Fields :
                     r.event[oid][f] = IF p[f] # None THEN p[f] ELSE event[oid][f]
               /\ IsEmpty(p) => (r.body = [updated |-> FALSE] /\ NoWrite(r))

\* an update has just changed one of two stored Events while a purchase exists
C6_Witness ==
    /\ last.op = "update_event"
    /\ last.status = 200
    /\ last.body = [updated |-> TRUE]
    /\ Cardinality(DOMAIN event) = 2
    /\ ticketpurchase # <<>>

\* ------------------------------------------------------------------- C7
\* C7: deleting a stored Event answers {deleted: true} and removes exactly
\* that Event; a removed identifier is never in a collection again, and every
\* later delete, get_by_id and purchase on it is answered 404 and writes
\* nothing.
C7_DeleteOnce ==
    /\ \A s \in IdStrings :
          Resolves(s) =>
             LET r == delete_event(s) IN
             /\ r.status = 200 /\ r.body = [deleted |-> TRUE]
             /\ DOMAIN r.event = DOMAIN event \ {OidOf(s)}
             /\ \A o \in DOMAIN r.event : r.event[o] = event[o]
             /\ r.ticketpurchase = ticketpurchase /\ r.nextOid = nextOid
    /\ removed \cap (DOMAIN event \cup DOMAIN ticketpurchase) = {}
    /\ removed \subseteq 1..(nextOid - 1)
    /\ \A oid \in removed :
          LET s == OidToStr(oid) IN
          /\ delete_event(s).status = 404 /\ NoWrite(delete_event(s))
          /\ get_event(s).status = 404 /\ NoWrite(get_event(s))
          /\ \A req \in PurchaseRequests :
                (req.event_id = s /\ ValidPurchaseRequest(req)) =>
                   /\ ~purchase_ticket(req).found
                   /\ purchase_ticket(req).out.status = 404
                   /\ NoWrite(purchase_ticket(req).out)

\* a delete was just answered 404 after an Event was removed, while another
\* Event is in the store
C7_Witness ==
    /\ last.op = "delete_event"
    /\ last.status = 404
    /\ removed # {}
    /\ event # <<>>

\* ------------------------------------------------------------------- C8
\* C8 as stated: get_by_id, update, delete and purchase with a malformed
\* identifier are answered 400, for every payload, and write nothing.
C8_AsStated ==
    \A s \in Malformed :
        /\ get_event(s).status = 400 /\ NoWrite(get_event(s))
        /\ delete_event(s).status = 400 /\ NoWrite(delete_event(s))
        /\ \A p \in EventPayloads :
              update_event(s, p).status = 400 /\ NoWrite(update_event(s, p))
        /\ \A req \in PurchaseRequests :
              req.event_id = s =>
                 /\ ~purchase_ticket(req).found
                 /\ purchase_ticket(req).out.status = 400
                 /\ NoWrite(purchase_ticket(req).out)

\* C8 amended: get_by_id, delete, purchase with a body that passes the schema
\* and update with a payload that passes the schema and has at least one
\* non-null field are answered 400 on a malformed identifier; update with no
\* non-null field is answered 200 {updated: false} before the identifier is
\* parsed, a body that fails the schema 422; nothing is written in any case.
C8_MalformedId ==
    \A s \in Malformed :
        /\ get_event(s).status = 400 /\ NoWrite(get_event(s))
        /\ delete_event(s).status = 400 /\ NoWrite(delete_event(s))
        /\ \A p \in EventPayloads :
              /\ NoWrite(update_event(s, p))
              /\ update_event(s, p).status =
                    IF ~ValidEventUpdate(p) THEN 422
                    ELSE IF IsEmpty(p) THEN 200 ELSE 400
              /\ IsEmpty(p) => update_event(s, p).body = [updated |-> FALSE]
        /\ \A req \in PurchaseRequests :
              req.event_id = s =>
                 /\ ~purchase_ticket(req).found
                 /\ NoWrite(purchase_ticket(req).out)
                 /\ purchase_ticket(req).out.status =
                       IF ValidPurchaseRequest(req) THEN 400 ELSE 422

\* an update was just answered 400 while the store holds an Event and a purchase
C8_Witness ==
    /\ last.op = "update_event"
    /\ last.status = 400
    /\ event # <<>>
    /\ ticketpurchase # <<>>

\* ------------------------------------------------------------------- C9
\* C9: no step changes or removes a TicketPurchase record: every record is
\* in the collection after the step as it was before, whatever happens to the
\* Event it references.
C9_PurchasesKept ==
    [][\A oid \in DOMAIN ticketpurchase :
          /\ oid \in DOMAIN ticketpurchase'
          /\ ticketpurchase'[oid] = ticketpurchase[oid]]_vars

\* a record references an Event that a delete has just removed
C9_Witness ==
    /\ last.op \in {"delete_event", "admin_delete_event"}
    /\ last.status = 200
    /\ \E oid \in DOMAIN ticketpurchase :
          OidOf(ticketpurchase[oid].event_id) \in removed

\* ------------------------------------------------------------------ C10
\* C10: an update with a payload that passes the schema and has a non-null
\* field, on an existing Event, answers 200 with updated = TRUE exactly when
\* a stored field value differs after it; when every supplied value equals
\* the stored one it answers {updated: false}, not 404, and writes nothing.
C10_UpdatedIffModified ==
    \A s \in IdStrings, p \in EventPayloads :
        (Resolves(s) /\ ValidEventUpdate(p) /\ ~IsEmpty(p)) =>
            LET r == update_event(s, p)
                doc == event[OidOf(s)]
            IN /\ r.status = 200
               /\ r.body = [updated |-> (r.event # event)]
               /\ (\A f \in Fields : p[f] # None => p[f] = doc[f])
                     => (r.body = [updated |-> FALSE] /\ NoWrite(r))

\* an update was just answered {updated: false} on a store that holds an Event
C10_Witness ==
    /\ last.op = "update_event"
    /\ last.status = 200
    /\ last.body = [updated |-> FALSE]
    /\ event # <<>>

====
